---------------------------- MODULE Spec2Model ----------------------------
(***************************************************************************)
(* Model of vizier/_src/jax/models/tuned_gp_models.py: the                 *)
(* VizierGaussianProcess model coroutine.  The object is a frozen          *)
(* dataclass; calling it creates a Python generator that yields one        *)
(* sp.ModelParameter declaration at a time, receives the resolved value    *)
(* through send(), and returns the assembled Gaussian process.             *)
(*                                                                         *)
(* Values are symbolic: arrays are tokens, and every library constructor   *)
(* (kernels, sqrt, products) is a term recording its operands, so that     *)
(* what was bound to which declaration stays visible in the returned       *)
(* model.                                                                  *)
(***************************************************************************)
EXTENDS Integers, Sequences, FiniteSets, TLC

(***************************************************************************)
(* Bounds of the model.                                                    *)
(***************************************************************************)
\* Feature blocks have 0..MaxDim columns.
MaxDim == 1
\* labels.shape[-1] (num_metrics) ranges over 0..MaxMetrics.
MaxMetrics == 2

\* Generators of the one model object that are alive at a time.
Runs == {1, 2}

\* The values a driver supplies are arrays, which __call__ never inspects: it
\* only passes them on to library constructors.  Each is a token of its own:
\* Value(d, k) is the array driver d supplies as its k-th value, so no two
\* values are equal within a run, nor across runs fed by different drivers.
Value(d, k) == <<"value", d, k>>

\* Optional values: None is <<>>, a present value x is <<x>>.
None == <<>>
Some(x) == <<x>>
Get(o) == o[1]

(***************************************************************************)
(* multitask_tuned_gp_models.MultiTaskType: INDEPENDENT and the separable  *)
(* variants.                                                               *)
(***************************************************************************)
MultiTaskType == {"INDEPENDENT", "SEPARABLE_A", "SEPARABLE_B"}

\* The members build_task_kernel_scale_linop has a variant for.
SeparableTypes == MultiTaskType \ {"INDEPENDENT"}

\* A value that is no member of the enumeration; Python checks no annotation,
\* so a caller can pass it as multitask_type.
NotAMultiTaskType == "NOT_A_TYPE"

\* The values of _linear_coef: None or a float.
LinearCoefs == {None, Some("coef")}

\* _boundary_epsilon: the default, and one caller-chosen value.
default_boundary_epsilon == "1e-12"
BoundaryEpsilons == {default_boundary_epsilon, "1e-6"}

Dims == {[continuous |-> c, categorical |-> k] : c \in 0..MaxDim, k \in 0..MaxDim}

VARIABLES
  self,       \* None, or Some(the constructed VizierGaussianProcess)
  built,      \* outcome of construction: "no", "ok" or "ValueError"
  other,      \* None, or Some(a second VizierGaussianProcess, which run 2
              \* is then called on)
  driver,     \* driver[r]: the driver that supplies the values of run r
  abandoned,  \* abandoned[r]: a generator of run r was dropped before it
              \* returned (recorded by Recall only)
  gstate,     \* gstate[r]: "none", "created", "suspended", "closed" (the
              \* body returned) or "raised" (the body raised)
  pc,         \* pc[r]: the yield the generator is suspended at
  locals,     \* locals[r]: the local variables of __call__
  emitted,    \* emitted[r]: the declarations yielded so far, in order
  sent,       \* sent[r]: the values the generator has received, in order
  last,       \* last[r]: the latest advance of run r: whether it carried a
              \* value, and its outcome
  result,     \* result[r]: None, or Some(the returned distribution)
  evaluated,  \* evaluated[r]: None, or Some(the array contents the returned
              \* model was evaluated on and the log-density obtained)
  factorizations, \* factorizations[r]: the matrix factorizations made for
              \* run r so far, each the function that made it
  policy,     \* None, or Some(how seed_with_default was applied and the
              \* callable policy.suggest evaluates to)
  log,        \* the calls of policy.suggest so far, in order: the request,
              \* the invocations of the wrapped function, the decision
  runner,     \* None, or Some(the RandomMetricsRunner whose _run was called)
  frame,      \* the local variables of _run and its position
  supporter,  \* the trials of algorithm.supporter, in order
  batches,    \* what each call of algorithm.suggest returned, in order
  returned    \* None, or Some(what _run returned)

genvars == <<gstate, pc, locals, emitted, sent, last, result, evaluated, factorizations>>

\* The variables of suggest_default.py.
seedvars == <<policy, log>>

\* The variables of test_runners.py.
runnervars == <<runner, frame, supporter, batches, returned>>

\* The variables outside tuned_gp_models.py.
envvars == <<seedvars, runnervars>>

objvars == <<self, built, other, driver, abandoned>>

vars == <<objvars, genvars, envvars>>

(***************************************************************************)
(* Construction.                                                           *)
(***************************************************************************)
\* The methods the class body defines.
MethodsDefined == {"__attrs_post_init__", "build_model", "__call__"}

\* __attrs_post_init__: the num_metrics check.
attrs_post_init(obj) == IF obj.num_metrics < 1 THEN "ValueError" ELSE "ok"

\* The class is a flax struct.dataclass, i.e. a frozen dataclasses.dataclass:
\* the generated __init__ assigns the fields and then calls __post_init__ when
\* the class defines one.  The class defines only __attrs_post_init__, the hook
\* of the attrs library, which a dataclass never calls.
DataclassInit(obj) ==
  IF "__post_init__" \in MethodsDefined THEN attrs_post_init(obj) ELSE "ok"

VizierGaussianProcess(dim, m, chol, eps, lc, mt) ==
  [dim |-> dim,
   num_metrics |-> m,
   use_retrying_cholesky |-> chol,
   boundary_epsilon |-> eps,
   linear_coef |-> lc,
   multitask_type |-> mt]

\* Assigns self when construction succeeds.
Constructed(obj) ==
  /\ built' = DataclassInit(obj)
  /\ self' = IF DataclassInit(obj) = "ok" THEN Some(obj) ELSE None

NoLocals ==
  [inputs |-> None, signal_variance |-> None,
   continuous_length_scale_squared |-> None,
   categorical_length_scale_squared |-> None,
   kernel |-> None, mean_fn |-> None, slopes |-> None, shift |-> None,
   mean_fn_constant |-> None, observation_noise_variance |-> None,
   cholesky_fn |-> None, sub |-> None, task_kernel_scale_linop |-> None]

NoAdvance == [value |-> FALSE, outcome |-> "none"]

\* No generator, no policy, no runner.
InitRest ==
  /\ gstate = [r \in Runs |-> "none"]
  /\ pc = [r \in Runs |-> ""]
  /\ locals = [r \in Runs |-> NoLocals]
  /\ emitted = [r \in Runs |-> <<>>]
  /\ sent = [r \in Runs |-> <<>>]
  /\ last = [r \in Runs |-> NoAdvance]
  /\ result = [r \in Runs |-> None]
  /\ evaluated = [r \in Runs |-> None]
  /\ factorizations = [r \in Runs |-> <<>>]
  /\ abandoned = [r \in Runs |-> FALSE]
  /\ policy = None
  /\ log = <<>>
  /\ runner = None
  /\ frame = [pc |-> "idle", it |-> 0, suggestions |-> <<>>, next |-> 0,
              trials |-> <<>>, drawn |-> 0]
  /\ supporter = <<>>
  /\ batches = <<>>
  /\ returned = None

Init ==
  /\ self = None
  /\ built = "no"
  /\ other = None
  /\ driver = [r \in Runs |-> r]
  /\ InitRest

\* VizierGaussianProcess(_dim=..., _num_metrics=..., ...) called directly.
Construct ==
  /\ built = "no"
  /\ \E dim \in Dims, m \in 0..MaxMetrics, chol \in BOOLEAN,
        eps \in BoundaryEpsilons, lc \in LinearCoefs, mt \in MultiTaskType :
       Constructed(VizierGaussianProcess(dim, m, chol, eps, lc, mt))
  /\ UNCHANGED <<other, driver, abandoned, genvars, envvars>>

\* build_model(data, ...): the dimensions and the metric count are read off the
\* shapes of data.features and data.labels; _boundary_epsilon keeps its default.
build_model ==
  /\ built = "no"
  /\ \E features \in Dims, labels_last \in 0..MaxMetrics, chol \in BOOLEAN,
        lc \in LinearCoefs, mt \in MultiTaskType :
       Constructed(VizierGaussianProcess(
           [continuous |-> features.continuous,
            categorical |-> features.categorical],
           labels_last, chol, default_boundary_epsilon, lc, mt))
  /\ UNCHANGED <<other, driver, abandoned, genvars, envvars>>

\* build_model(data, ..., multitask_type=x) with x outside MultiTaskType:
\* build_model passes every argument on to the constructor and examines none.
build_model_untyped ==
  /\ built = "no"
  /\ \E features \in Dims, labels_last \in 0..MaxMetrics, chol \in BOOLEAN,
        lc \in LinearCoefs :
       Constructed(VizierGaussianProcess(
           [continuous |-> features.continuous,
            categorical |-> features.categorical],
           labels_last, chol, default_boundary_epsilon, lc, NotAMultiTaskType))
  /\ UNCHANGED <<other, driver, abandoned, genvars, envvars>>

(***************************************************************************)
(* Library constructors, kept as terms.                                    *)
(***************************************************************************)
Sqrt(x) == <<"sqrt", x>>
Mul(a, b) == <<"mul", a, b>>
Ones(n) == [i \in 1..n |-> "1.0"]

MaternFiveHalves(amplitude) == [kernel |-> "MaternFiveHalves", args |-> <<amplitude>>]
ContinuousAndCategoricalValues(c, k) == [continuous |-> c, categorical |-> k]
FeatureScaledWithCategorical(kernel, scale_diag) == [kernel |-> "FeatureScaledWithCategorical", args |-> <<kernel, scale_diag>>]
Linear(slope_amplitude, shift) == [kernel |-> "Linear", args |-> <<slope_amplitude, shift>>]
FeatureScaled(kernel, scale_diag) == [kernel |-> "FeatureScaled", args |-> <<kernel, scale_diag>>]
ContinuousOnly(kernel) == [kernel |-> "ContinuousOnly", args |-> <<kernel>>]
KernelSum(k1, k2) == [kernel |-> "Sum", args |-> <<k1, k2>>]
MaskFeatures(kernel, dimension_is_missing) == [kernel |-> "MaskFeatures", args |-> <<kernel, dimension_is_missing>>]
Independent(num_tasks, kernel) == [kernel |-> "Independent", args |-> <<num_tasks, kernel>>]
Separable(num_tasks, base_kernel, linop) == [kernel |-> "Separable", args |-> <<num_tasks, base_kernel, linop>>]

\* _ConstantMeanFn(constant)
ConstantMeanFn(constant) == [constant |-> constant]

\* sp.ModelParameter; shape is the shape of the array init_fn samples.
ModelParameter(name, init_fn, constraint, shape) ==
  [name |-> name, init_fn |-> init_fn, constraint |-> constraint, shape |-> shape]

\* sp.Constraint(bounds, tfb.SoftClip(*bounds, hinge_softness=1e-2))
Constraint(bounds) == Some([bounds |-> bounds, bijector |-> "SoftClip"])

\* The bounds computed at the head of __call__, widened by eps.
observation_noise_bounds(eps) == <<<<"1e-10", "-", eps>>, <<"1.0", "+", eps>>>>
amplitude_bounds(eps) == <<<<"1e-3", "-", eps>>, <<"10.0", "+", eps>>>>
length_scale_bounds(eps, n) == <<<<Ones(n), "*", <<"1e-2", "-", eps>>>>, <<Ones(n), "* 1e2 +", eps>>>>

(***************************************************************************)
(* The declarations of __call__, in source order.                          *)
(***************************************************************************)
decl_signal_variance(obj) ==
  ModelParameter("signal_variance", "log_uniform",
                 Constraint(amplitude_bounds(obj.boundary_epsilon)), <<>>)

decl_continuous_length_scale_squared(obj) ==
  ModelParameter("continuous_length_scale_squared", "log_uniform",
                 Constraint(length_scale_bounds(obj.boundary_epsilon, obj.dim.continuous)),
                 <<obj.dim.continuous>>)

decl_categorical_length_scale_squared(obj) ==
  ModelParameter("categorical_length_scale_squared", "log_uniform",
                 Constraint(length_scale_bounds(obj.boundary_epsilon, obj.dim.categorical)),
                 <<obj.dim.categorical>>)

decl_linear_slope_amplitude(obj) ==
  ModelParameter("linear_slope_amplitude", "log_uniform",
                 Constraint(amplitude_bounds(obj.boundary_epsilon)), <<>>)

\* decl_linear_shift declared under the name of the declaration after it.
decl_linear_shift_misnamed(obj) ==
  ModelParameter("mean_fn", "normal", None, <<>>)

decl_linear_shift(obj) ==
  ModelParameter("linear_shift", "normal", None, <<>>)

decl_mean_fn(obj) ==
  ModelParameter("mean_fn", "normal", None,
                 IF obj.num_metrics = 1 THEN <<1>> ELSE <<1, obj.num_metrics>>)

\* decl_observation_noise_variance declared under the name of the first
\* declaration of the run.
decl_observation_noise_variance_as_signal(obj) ==
  ModelParameter("signal_variance", "log_uniform",
                 Constraint(observation_noise_bounds(obj.boundary_epsilon)), <<>>)

decl_observation_noise_variance(obj) ==
  ModelParameter("observation_noise_variance", "log_uniform",
                 Constraint(observation_noise_bounds(obj.boundary_epsilon)), <<>>)

(***************************************************************************)
(* The nested coroutine multitask_tuned_gp_models.                         *)
(* build_task_kernel_scale_linop(num_tasks, multitask_type): it declares   *)
(* one or more task-kernel-scale parameters, their count depending on the  *)
(* variant, and returns the task-kernel-scale operator built from the      *)
(* values it received.  A multitask_type it has no variant for is a        *)
(* configuration error, raised when the nested coroutine is started.       *)
(***************************************************************************)
task_kernel_scale_supported(multitask_type) == multitask_type \in SeparableTypes

task_kernel_scale_names(multitask_type) ==
  IF multitask_type = "SEPARABLE_A"
  THEN <<"task_kernel_scale_1">>
  ELSE <<"task_kernel_scale_1", "task_kernel_scale_2">>

decl_task_kernel_scale(num_tasks, multitask_type, i) ==
  ModelParameter(task_kernel_scale_names(multitask_type)[i], "task_kernel_init",
                 None, <<num_tasks>>)

task_kernel_scale_linop(num_tasks, multitask_type, vals) ==
  [linop |-> multitask_type, num_tasks |-> num_tasks, params |-> vals]

(***************************************************************************)
(* The distributions __call__ returns.                                     *)
(***************************************************************************)
GaussianProcess(kernel, index_points, noise, cholesky_fn, mean_fn) ==
  [distribution |-> "GaussianProcess", kernel |-> kernel,
   index_points |-> index_points, observation_noise_variance |-> noise,
   cholesky_fn |-> cholesky_fn, mean_fn |-> mean_fn]

MultiTaskGaussianProcess(kernel, index_points, noise, cholesky_fn, mean_fn) ==
  [distribution |-> "MultiTaskGaussianProcess", kernel |-> kernel,
   index_points |-> index_points, observation_noise_variance |-> noise,
   cholesky_fn |-> cholesky_fn, mean_fn |-> mean_fn]

\* Event shape of the returned distribution, as the docstring of __call__
\* states it: [num_examples] or [num_examples, num_metrics].
event_shape(d) ==
  IF d.distribution = "GaussianProcess"
  THEN <<"num_examples">>
  ELSE <<"num_examples", d.kernel.args[1]>>

\* max_iters of the retrying_cholesky partial.
max_iters == 5

\* cholesky_fn giving the retrying factorization a jitter that follows the
\* boundary epsilon.
cholesky_fn_jitter_from_epsilon(obj) ==
  IF obj.use_retrying_cholesky
  THEN Some([fn |-> "retrying_cholesky", jitter |-> obj.boundary_epsilon,
             max_iters |-> max_iters, element |-> 0])
  ELSE None

\* cholesky_fn: None, or the lambda taking element [0] of retrying_cholesky.
cholesky_fn(obj) ==
  IF obj.use_retrying_cholesky
  THEN Some([fn |-> "retrying_cholesky", jitter |-> "1e-4",
             max_iters |-> max_iters, element |-> 0])
  ELSE None

\* What factorizes a covariance matrix of distribution d: the cholesky_fn it
\* was constructed with or, given none, the plain Cholesky factorization.
Factorization(d) ==
  IF d.cholesky_fn = None THEN [fn |-> "cholesky"] ELSE Get(d.cholesky_fn)

(***************************************************************************)
(* Inputs of a call: None, or a ModelInput whose two blocks carry a padded *)
(* array and the pair is_missing of masks, is_missing[1] being the mask    *)
(* over the feature dimensions (index 2 here, sequences being 1-based).    *)
(* The arrays are tokens.                                                  *)
(***************************************************************************)
PaddedArray(block, n) ==
  [padded_array |-> <<block, "padded_array", n>>,
   is_missing |-> << <<block, "is_missing", 0>>, <<block, "is_missing", 1>> >>]

ModelInput(dim) ==
  [continuous |-> PaddedArray("continuous", dim.continuous),
   categorical |-> PaddedArray("categorical", dim.categorical)]

(***************************************************************************)
(* Generator mechanics: what one send() or next() does to run r.           *)
(***************************************************************************)
\* The body runs to the next yield: the declaration goes to the driver.
Yields(r, decl, at, newlocals, arg) ==
  /\ gstate' = [gstate EXCEPT ![r] = "suspended"]
  /\ pc' = [pc EXCEPT ![r] = at]
  /\ locals' = [locals EXCEPT ![r] = newlocals]
  /\ emitted' = [emitted EXCEPT ![r] = Append(@, decl)]
  /\ sent' = [sent EXCEPT ![r] = IF arg = None THEN @ ELSE Append(@, Get(arg))]
  /\ last' = [last EXCEPT ![r] = [value |-> arg # None, outcome |-> "yield"]]
  /\ UNCHANGED <<result, evaluated, factorizations>>

\* Returns with the distribution factorizing as soon as it is constructed.
Returns_factorizing(r, value, newlocals, arg) ==
  /\ gstate' = [gstate EXCEPT ![r] = "closed"]
  /\ pc' = [pc EXCEPT ![r] = ""]
  /\ locals' = [locals EXCEPT ![r] = newlocals]
  /\ sent' = [sent EXCEPT ![r] = Append(@, Get(arg))]
  /\ last' = [last EXCEPT ![r] = [value |-> arg # None, outcome |-> "return"]]
  /\ result' = [result EXCEPT ![r] = Some(value)]
  /\ factorizations' = [factorizations EXCEPT ![r] = Append(@, Factorization(value))]
  /\ UNCHANGED <<emitted, evaluated>>

\* The body runs to its return statement: StopIteration carries the value.
\* The distribution is constructed from the kernel, the index points and the
\* function cholesky_fn; nothing is factorized.
Returns(r, value, newlocals, arg) ==
  /\ gstate' = [gstate EXCEPT ![r] = "closed"]
  /\ pc' = [pc EXCEPT ![r] = ""]
  /\ locals' = [locals EXCEPT ![r] = newlocals]
  /\ sent' = [sent EXCEPT ![r] = Append(@, Get(arg))]
  /\ last' = [last EXCEPT ![r] = [value |-> arg # None, outcome |-> "return"]]
  /\ result' = [result EXCEPT ![r] = Some(value)]
  /\ UNCHANGED <<emitted, evaluated, factorizations>>

\* The body raises: the exception reaches the driver and the generator is
\* finished without a return value.
Fails(r, exception, newlocals, arg) ==
  /\ gstate' = [gstate EXCEPT ![r] = "raised"]
  /\ pc' = [pc EXCEPT ![r] = ""]
  /\ locals' = [locals EXCEPT ![r] = newlocals]
  /\ sent' = [sent EXCEPT ![r] = Append(@, Get(arg))]
  /\ last' = [last EXCEPT ![r] = [value |-> arg # None, outcome |-> exception]]
  /\ UNCHANGED <<emitted, result, evaluated, factorizations>>

\* The advance raises in the driver; the generator is left as it was.
Raises(r, exception, with_value) ==
  /\ last' = [last EXCEPT ![r] = [value |-> with_value, outcome |-> exception]]
  /\ UNCHANGED <<gstate, pc, locals, emitted, sent, result, evaluated, factorizations>>

Suspended(r, at) == gstate[r] = "suspended" /\ pc[r] = at

\* The object run r is called on: the second one, if there is one, for run 2.
Obj(r) == IF r = 2 /\ other # None THEN Get(other) ELSE Get(self)

\* MaskInputs leaving the kernel as it is.
MaskInputs_unmasked(l) ==
  IF l.inputs # None
  THEN [l EXCEPT
          !.inputs = Some(ContinuousAndCategoricalValues(
                         Get(l.inputs).continuous.padded_array,
                         Get(l.inputs).categorical.padded_array))]
  ELSE l

\* Lines 247-261: with inputs, mask the missing dimensions out of the kernel
\* and keep the padded arrays as index points.
MaskInputs(l) ==
  IF l.inputs # None
  THEN [l EXCEPT
          !.kernel = Some(MaskFeatures(Get(l.kernel),
                       ContinuousAndCategoricalValues(
                         Get(l.inputs).continuous.is_missing[2],
                         Get(l.inputs).categorical.is_missing[2]))),
          !.inputs = Some(ContinuousAndCategoricalValues(
                         Get(l.inputs).continuous.padded_array,
                         Get(l.inputs).categorical.padded_array))]
  ELSE l

(***************************************************************************)
(* The actions of a run.                                                   *)
(***************************************************************************)
\* gen = model(inputs): creates a generator; no line of the body runs.  The
\* generator run r held before, if any, is dropped.
\* NewGenerator resuming the frame of the generator before it.
NewGenerator_keeping_frame(r) ==
  /\ self # None
  /\ \E inp \in {None, Some(ModelInput(Obj(r).dim))} :
       locals' = [locals EXCEPT ![r] = [NoLocals EXCEPT !.inputs = inp]]
  /\ gstate' = [gstate EXCEPT ![r] = "created"]
  /\ pc' = [pc EXCEPT ![r] = ""]
  /\ last' = [last EXCEPT ![r] = NoAdvance]
  /\ result' = [result EXCEPT ![r] = None]
  /\ evaluated' = [evaluated EXCEPT ![r] = None]
  /\ factorizations' = [factorizations EXCEPT ![r] = <<>>]
  /\ UNCHANGED <<emitted, sent>>

\* gen = model(inputs): a new generator with a frame of its own, holding the
\* argument and nothing else.
NewGenerator(r) ==
  /\ self # None
  /\ \E inp \in {None, Some(ModelInput(Obj(r).dim))} :
       locals' = [locals EXCEPT ![r] = [NoLocals EXCEPT !.inputs = inp]]
  /\ gstate' = [gstate EXCEPT ![r] = "created"]
  /\ pc' = [pc EXCEPT ![r] = ""]
  /\ emitted' = [emitted EXCEPT ![r] = <<>>]
  /\ sent' = [sent EXCEPT ![r] = <<>>]
  /\ last' = [last EXCEPT ![r] = NoAdvance]
  /\ result' = [result EXCEPT ![r] = None]
  /\ evaluated' = [evaluated EXCEPT ![r] = None]
  /\ factorizations' = [factorizations EXCEPT ![r] = <<>>]

Call(r) ==
  /\ NewGenerator(r)
  /\ UNCHANGED <<objvars, envvars>>

\* The same call, made while the generator run r holds is in progress: that
\* generator is abandoned where it is.
Recall(r) ==
  /\ gstate[r] \in {"created", "suspended"}
  /\ NewGenerator(r)
  /\ abandoned' = [abandoned EXCEPT ![r] = TRUE]
  /\ UNCHANGED <<self, built, other, driver, envvars>>

\* next(gen) / gen.send(None) on a just-created generator: lines 147-169.
Start(r) ==
  /\ gstate[r] = "created"
  /\ Yields(r, decl_signal_variance(Obj(r)), "signal_variance", locals[r], None)
  /\ UNCHANGED <<objvars, envvars>>

\* gen.send(v) on a just-created generator: Python raises TypeError.
SendBeforeStart(r) ==
  /\ gstate[r] = "created"
  /\ Raises(r, "TypeError", TRUE)
  /\ UNCHANGED <<objvars, envvars>>

\* Lines 161-182.
Resume_signal_variance(r) ==
  /\ Suspended(r, "signal_variance")
  /\ LET v == Value(driver[r], Len(sent[r]) + 1) IN
       Yields(r, decl_continuous_length_scale_squared(Obj(r)),
              "continuous_length_scale_squared",
              [locals[r] EXCEPT !.signal_variance = Some(v),
                                !.kernel = Some(MaternFiveHalves(Sqrt(v)))],
              Some(v))
  /\ UNCHANGED <<objvars, envvars>>

\* Resume_continuous_length_scale_squared binding the value it receives to the
\* local of the declaration before it.
Resume_continuous_length_scale_squared_misbound(r) ==
  /\ Suspended(r, "continuous_length_scale_squared")
  /\ LET v == Value(driver[r], Len(sent[r]) + 1) IN
       Yields(r, decl_categorical_length_scale_squared(Obj(r)),
              "categorical_length_scale_squared",
              [locals[r] EXCEPT !.signal_variance = Some(v)],
              Some(v))
  /\ UNCHANGED <<objvars, envvars>>

\* Lines 172-194.
Resume_continuous_length_scale_squared(r) ==
  /\ Suspended(r, "continuous_length_scale_squared")
  /\ LET v == Value(driver[r], Len(sent[r]) + 1) IN
       Yields(r, decl_categorical_length_scale_squared(Obj(r)),
              "categorical_length_scale_squared",
              [locals[r] EXCEPT !.continuous_length_scale_squared = Some(v)],
              Some(v))
  /\ UNCHANGED <<objvars, envvars>>

\* has_linear_term also asking for the retrying factorization.
has_linear_term_when_retrying(obj, l) == obj.linear_coef # None /\ obj.use_retrying_cholesky

\* has_linear_term also asking for inputs.
has_linear_term_with_inputs(obj, l) == obj.linear_coef # None /\ l.inputs # None

\* Line 203, `if self._linear_coef is not None`, evaluated in the frame of the
\* generator: self and its locals l.
has_linear_term(obj, l) == obj.linear_coef # None

\* Lines 183-214 with a linear term, 183-203 and 247-271 without.
Resume_categorical_length_scale_squared(r) ==
  /\ Suspended(r, "categorical_length_scale_squared")
  /\ LET v == Value(driver[r], Len(sent[r]) + 1) IN
       LET l == [locals[r] EXCEPT
                   !.categorical_length_scale_squared = Some(v),
                   !.kernel = Some(FeatureScaledWithCategorical(Get(@),
                       ContinuousAndCategoricalValues(
                         Sqrt(Get(locals[r].continuous_length_scale_squared)),
                         Sqrt(v)))),
                   !.mean_fn = None]
       IN IF has_linear_term(Obj(r), l)
          THEN Yields(r, decl_linear_slope_amplitude(Obj(r)),
                      "linear_slope_amplitude", l, Some(v))
          ELSE Yields(r, decl_observation_noise_variance(Obj(r)),
                      "observation_noise_variance", MaskInputs(l), Some(v))
  /\ UNCHANGED <<objvars, envvars>>

\* Lines 206-219.
Resume_linear_slope_amplitude(r) ==
  /\ Suspended(r, "linear_slope_amplitude")
  /\ LET v == Value(driver[r], Len(sent[r]) + 1) IN
       Yields(r, decl_linear_shift(Obj(r)), "linear_shift",
              [locals[r] EXCEPT !.slopes = Some(v)], Some(v))
  /\ UNCHANGED <<objvars, envvars>>

\* Lines 215-243.
Resume_linear_shift(r) ==
  /\ Suspended(r, "linear_shift")
  /\ LET v == Value(driver[r], Len(sent[r]) + 1) IN
       LET coef == Get(Obj(r).linear_coef)
           l == [locals[r] EXCEPT
                   !.shift = Some(v),
                   !.kernel = Some(KernelSum(Get(@),
                       ContinuousOnly(FeatureScaled(
                         Linear(Mul(coef, Get(locals[r].slopes)), Mul(coef, v)),
                         Sqrt(Get(locals[r].continuous_length_scale_squared))))))]
       IN Yields(r, decl_mean_fn(Obj(r)), "mean_fn", l, Some(v))
  /\ UNCHANGED <<objvars, envvars>>

\* Lines 236-271.
Resume_mean_fn(r) ==
  /\ Suspended(r, "mean_fn")
  /\ LET v == Value(driver[r], Len(sent[r]) + 1) IN
       LET l == [locals[r] EXCEPT
                   !.mean_fn_constant = Some(v),
                   !.mean_fn = Some(ConstantMeanFn(
                                 Mul(v, Get(Obj(r).linear_coef))))]
       IN Yields(r, decl_observation_noise_variance(Obj(r)),
                 "observation_noise_variance", MaskInputs(l), Some(v))
  /\ UNCHANGED <<objvars, envvars>>

\* is_multitask deciding by the multitask type instead of the metric count.
is_multitask_by_type(obj) == obj.multitask_type # "INDEPENDENT"

\* is_multitask with the comparison off by one.
is_multitask_from_one(obj) == obj.num_metrics >= 1

\* Line 282: the multi-task branch is taken.
is_multitask(obj) == obj.num_metrics > 1

\* is_independent with the comparison inverted.
is_independent_inverted(obj) == obj.multitask_type # "INDEPENDENT"

\* Lines 283-286: the independent kernel is built.
is_independent(obj) == obj.multitask_type = "INDEPENDENT"

\* multitask_kernel dropping the values the nested coroutine received.
multitask_kernel_without_params(obj, l) ==
  IF is_independent(obj)
  THEN Independent(obj.num_metrics, Get(l.kernel))
  ELSE Separable(obj.num_metrics, Get(l.kernel),
                 task_kernel_scale_linop(obj.num_metrics, obj.multitask_type, <<>>))

\* Lines 283-298: the kernel of the multi-task distribution, from the frame.
multitask_kernel(obj, l) ==
  IF is_independent(obj)
  THEN Independent(obj.num_metrics, Get(l.kernel))
  ELSE Separable(obj.num_metrics, Get(l.kernel), Get(l.task_kernel_scale_linop))

\* Lines 299-313: the distribution returned, from the frame.
returned_distribution(obj, l) ==
  IF is_multitask(obj)
  THEN MultiTaskGaussianProcess(multitask_kernel(obj, l), l.inputs,
         Get(l.observation_noise_variance), l.cholesky_fn, l.mean_fn)
  ELSE GaussianProcess(Get(l.kernel), l.inputs,
         Get(l.observation_noise_variance), l.cholesky_fn, l.mean_fn)

\* Lines 263-313.
Resume_observation_noise_variance(r) ==
  /\ Suspended(r, "observation_noise_variance")
  /\ LET v == Value(driver[r], Len(sent[r]) + 1) IN
       LET obj == Obj(r)
           l == [locals[r] EXCEPT !.observation_noise_variance = Some(v),
                                  !.cholesky_fn = cholesky_fn(obj)]
       IN IF is_multitask(obj)
          THEN IF is_independent(obj)
               THEN Returns(r, returned_distribution(obj, l), l, Some(v))
               ELSE IF task_kernel_scale_supported(obj.multitask_type)
               THEN Yields(r,
                      decl_task_kernel_scale(obj.num_metrics, obj.multitask_type, 1),
                      "yield_from",
                      [l EXCEPT !.sub = Some([i |-> 1, vals |-> <<>>])],
                      Some(v))
               ELSE Fails(r, "ValueError", l, Some(v))
          ELSE Returns(r, returned_distribution(obj, l), l, Some(v))
  /\ UNCHANGED <<objvars, envvars>>

\* Lines 289-305: while the generator is inside `yield from`, a sent value goes
\* to the nested coroutine; its next declaration is passed out, and its return
\* value becomes task_kernel_scale_linop.
Resume_yield_from(r) ==
  /\ Suspended(r, "yield_from")
  /\ LET v == Value(driver[r], Len(sent[r]) + 1) IN
       LET obj == Obj(r)
           sub == Get(locals[r].sub)
           vals == Append(sub.vals, v)
           names == task_kernel_scale_names(obj.multitask_type)
       IN IF sub.i < Len(names)
          THEN Yields(r,
                 decl_task_kernel_scale(obj.num_metrics, obj.multitask_type, sub.i + 1),
                 "yield_from",
                 [locals[r] EXCEPT !.sub = Some([i |-> sub.i + 1, vals |-> vals])],
                 Some(v))
          ELSE LET linop == task_kernel_scale_linop(obj.num_metrics,
                                                    obj.multitask_type, vals)
                   l == [locals[r] EXCEPT
                           !.sub = Some([i |-> 0, vals |-> vals]),
                           !.task_kernel_scale_linop = Some(linop)]
               IN Returns(r, returned_distribution(obj, l), l, Some(v))
  /\ UNCHANGED <<objvars, envvars>>

\* AdvanceAfterReturn accepting the advance without raising.
AdvanceAfterReturn_ignored(r) ==
  /\ gstate[r] = "closed"
  /\ \E with_value \in BOOLEAN :
       /\ last' = [last EXCEPT ![r] = [value |-> with_value, outcome |-> "ignored"]]
       /\ UNCHANGED <<gstate, pc, locals, emitted, sent, result, evaluated, factorizations>>
  /\ UNCHANGED <<objvars, envvars>>

\* next(gen) or gen.send(x) on a generator that has returned: Python raises
\* StopIteration, carrying no value.
AdvanceAfterReturn(r) ==
  /\ gstate[r] = "closed"
  /\ \E with_value \in BOOLEAN : Raises(r, "StopIteration", with_value)
  /\ UNCHANGED <<objvars, envvars>>

\* next(gen) or gen.send(x) on a generator whose body raised: the generator
\* is finished, Python raises StopIteration.
AdvanceAfterRaise(r) ==
  /\ gstate[r] = "raised"
  /\ \E with_value \in BOOLEAN : Raises(r, "StopIteration", with_value)
  /\ UNCHANGED <<objvars, envvars>>

Step(r) ==
  \/ Call(r)
  \/ Start(r)
  \/ SendBeforeStart(r)
  \/ Resume_signal_variance(r)
  \/ Resume_continuous_length_scale_squared(r)
  \/ Resume_categorical_length_scale_squared(r)
  \/ Resume_linear_slope_amplitude(r)
  \/ Resume_linear_shift(r)
  \/ Resume_mean_fn(r)
  \/ Resume_observation_noise_variance(r)
  \/ Resume_yield_from(r)
  \/ AdvanceAfterReturn(r)

Next == Construct \/ build_model \/ \E r \in Runs : Step(r)

Spec == Init /\ [][Next]_vars

\* The callers of Spec pass members of MultiTaskType; those of SpecUntyped
\* may also pass a value outside it.
NextUntyped == Next \/ build_model_untyped \/ \E r \in Runs : AdvanceAfterRaise(r)

SpecUntyped == Init /\ [][NextUntyped]_vars

(***************************************************************************)
(* Two model objects side by side.  The second is constructed for the      *)
(* dimensionality, linear coefficient and multitask type of the first,     *)
(* with any metric count, use_retrying_cholesky and boundary epsilon.      *)
(* Run 1 is a generator of the first and run 2 one of the second; both are *)
(* fed by one driver, advanced in turn, and used as the protocol asks.     *)
(***************************************************************************)
ConstructOther ==
  /\ self # None /\ other = None
  /\ \E m \in 0..MaxMetrics, chol \in BOOLEAN, eps \in BoundaryEpsilons :
       LET obj == VizierGaussianProcess(Get(self).dim, m, chol, eps,
                                        Get(self).linear_coef,
                                        Get(self).multitask_type)
       IN other' = IF DataclassInit(obj) = "ok" THEN Some(obj) ELSE None
  /\ UNCHANGED <<self, built, driver, abandoned, genvars, envvars>>

\* How far run r has come.
Progress(r) ==
  CASE gstate[r] = "none" -> 0
    [] gstate[r] = "created" -> 1
    [] OTHER -> 2 + Len(sent[r])

\* Run 1 moves when it is not ahead of run 2, run 2 when it is behind; a run
\* that has returned waits for the other.
Turn(r) ==
  IF r = 1
  THEN Progress(1) <= Progress(2) \/ gstate[2] = "closed"
  ELSE Progress(2) < Progress(1) \/ gstate[1] = "closed"

\* One step of a driver that follows the protocol: the call, the first
\* advance without a value, then one value per declaration.
Protocol(r) ==
  \/ gstate[r] = "none" /\ Call(r)
  \/ Start(r)
  \/ Resume_signal_variance(r)
  \/ Resume_continuous_length_scale_squared(r)
  \/ Resume_categorical_length_scale_squared(r)
  \/ Resume_linear_slope_amplitude(r)
  \/ Resume_linear_shift(r)
  \/ Resume_mean_fn(r)
  \/ Resume_observation_noise_variance(r)
  \/ Resume_yield_from(r)

InitPair ==
  /\ self = None
  /\ built = "no"
  /\ other = None
  /\ driver = [r \in Runs |-> 1]
  /\ InitRest

NextPair ==
  \/ build_model
  \/ ConstructOther
  \/ \E r \in Runs : other # None /\ Turn(r) /\ Protocol(r)

SpecPair == InitPair /\ [][NextPair]_vars

(***************************************************************************)
(* Evaluating a returned model on its index points.  The arrays a call was *)
(* given are tokens to __call__, which reads none of them; their contents  *)
(* matter only now.  A block holds, per feature dimension, its raw column  *)
(* and the flag of is_missing[1] saying that the whole dimension is        *)
(* missing.  A kernel's value is a term over the features it is applied    *)
(* to; mask_features.MaskFeatures zeroes the dimensions flagged missing    *)
(* before it applies the kernel it wraps.                                  *)
(***************************************************************************)
RawValues == {"x", "y"}

ArrayContents(n) ==
  [padded_array : [1..n -> RawValues], is_missing : [1..n -> BOOLEAN]]

Contents(dim) ==
  [continuous : ArrayContents(dim.continuous),
   categorical : ArrayContents(dim.categorical)]

\* The array behind a token <<block, field, n>> of PaddedArray.
Deref(token, env) == env[token[1]][token[2]]

\* The features with the dimensions flagged in mask set to zero.
Masked(x, mask) ==
  [continuous |-> [i \in DOMAIN x.continuous |->
                     IF mask.continuous[i] THEN "0" ELSE x.continuous[i]],
   categorical |-> [i \in DOMAIN x.categorical |->
                     IF mask.categorical[i] THEN "0" ELSE x.categorical[i]]]

RECURSIVE KernelValue(_, _, _)
KernelValue(kernel, x, env) ==
  CASE kernel.kernel = "MaskFeatures" ->
         KernelValue(kernel.args[1],
                     Masked(x, [continuous |-> Deref(kernel.args[2].continuous, env),
                                categorical |-> Deref(kernel.args[2].categorical, env)]),
                     env)
    [] kernel.kernel = "Sum" ->
         <<"sum", KernelValue(kernel.args[1], x, env), KernelValue(kernel.args[2], x, env)>>
    [] kernel.kernel = "Independent" ->
         <<"independent", kernel.args[1], KernelValue(kernel.args[2], x, env)>>
    [] kernel.kernel = "Separable" ->
         <<"separable", kernel.args[1], KernelValue(kernel.args[2], x, env), kernel.args[3]>>
    [] OTHER -> <<kernel, x>>

\* The log-density of distribution d at its index points: a term over the
\* kernel's value there, the noise, the mean function (which deletes its
\* argument and returns its constant) and the factorization used.
LogProb(d, env) ==
  <<"log_prob",
    KernelValue(d.kernel,
                [continuous |-> Deref(Get(d.index_points).continuous, env),
                 categorical |-> Deref(Get(d.index_points).categorical, env)],
                env),
    d.observation_noise_variance, d.mean_fn, Factorization(d)>>

\* model.log_prob(labels) on the model run r returned for the inputs it was
\* called with: the covariance over the index points is computed and
\* factorized.
log_prob(r) ==
  /\ gstate[r] = "closed"
  /\ evaluated[r] = None
  /\ Get(result[r]).index_points # None
  /\ \E env \in Contents(Obj(r).dim) :
       evaluated' = [evaluated EXCEPT ![r] =
                       Some([env |-> env, log_prob |-> LogProb(Get(result[r]), env)])]
  /\ factorizations' = [factorizations EXCEPT ![r] =
                          Append(@, Factorization(Get(result[r])))]
  /\ UNCHANGED <<objvars, envvars, gstate, pc, locals, emitted, sent, last, result>>

\* One generator at a time, used in any way, and its model evaluated.
NextEval == Construct \/ build_model \/ Step(1) \/ log_prob(1)

SpecEval == Init /\ [][NextEval]_vars

\* Two generators of one object advanced in turn by drivers that follow the
\* protocol but may abandon a generator in progress and call again.
NextRestart ==
  \/ build_model
  \/ \E r \in Runs : Turn(r) /\ (Protocol(r) \/ Recall(r))

SpecRestart == Init /\ [][NextRestart]_vars

(***************************************************************************)
(* vizier/_src/pythia/suggest_default.py: the decorator seed_with_default  *)
(* around Policy.suggest.  Callables are terms: a plain function, a bound  *)
(* method (function and instance), and the closure wrapper_fn over the     *)
(* function it wraps.                                                      *)
(***************************************************************************)
\* request.count ranges over 0..MaxCount, and a wrapped suggest returns
\* 0..MaxCount suggestions.
MaxCount == 3
\* study_descriptor.max_trial_id ranges over 0..MaxTrialId.
MaxTrialId == 1
\* The calls of policy.suggest a behaviour makes.
MaxCalls == 2

Function(name) == [kind |-> "function", name |-> name]
MethodType(func, obj) == [kind |-> "method", func |-> func, self |-> obj]
wrapper_fn(suggest_fn) == [kind |-> "wrapper_fn", wraps |-> suggest_fn]

\* hasattr(suggest_fn, '__self__'): true of bound methods only.
has_self(suggest_fn) == suggest_fn.kind = "method"

\* Lines 63-87.  The inner call on suggest_fn.__func__, a plain function,
\* takes the second branch.
seed_with_default(suggest_fn) ==
  IF has_self(suggest_fn)
  THEN MethodType(wrapper_fn(suggest_fn.func), suggest_fn.self)
  ELSE wrapper_fn(suggest_fn)

\* The one policy instance.
PolicyInstance == "policy"

\* vz.StudyDescriptor and pythia.SuggestRequest; request.max_trial_id reads
\* study_descriptor.max_trial_id.
StudyDescriptor(max_trial_id) ==
  [config |-> "problem", guid |-> "1", max_trial_id |-> max_trial_id]
SuggestRequest(count, study_descriptor) ==
  [count |-> count, study_descriptor |-> study_descriptor]
Requests ==
  {SuggestRequest(count, StudyDescriptor(id)) : count \in 0..MaxCount, id \in 0..MaxTrialId}

SuggestDecision(suggestions, metadata) ==
  [suggestions |-> suggestions, metadata |-> metadata]
TrialSuggestion(parameters) == [parameters |-> parameters]

\* pi.get_default_parameters(request.study_config.search_space)
default_parameters(request) == <<"default_parameters", request.study_descriptor.config>>

\* What a wrapped suggest may return: any number of suggestions of its own,
\* with its own metadata.
WrappedDecisions ==
  {SuggestDecision([i \in 1..n |-> TrialSuggestion(<<"wrapped", i>>)], "wrapped_metadata") : n \in 0..MaxCount}

\* study_has_trials with the threshold off by one.
study_has_trials_above_one(request) == request.study_descriptor.max_trial_id > 1

\* Line 70.
study_has_trials(request) == request.study_descriptor.max_trial_id > 0

\* remaining_request leaving count as it is.
remaining_request_same_count(request) == request

\* Lines 79-81: attrs.evolve(request, count=request.count - 1).
remaining_request(request) == [request EXCEPT !.count = request.count - 1]

\* One invocation of the wrapped function: its arguments and what it returned.
Invocation(suggest_fn, obj, request, value) ==
  [fn |-> suggest_fn, self |-> obj, request |-> request, returned |-> value]

\* wrapper_fn_call asking the wrapped function for more whenever count > 0.
wrapper_fn_call_from_one(suggest_fn, obj, request, more) ==
  IF study_has_trials(request)
  THEN [decision |-> more,
        invoked |-> <<Invocation(suggest_fn, obj, request, more)>>]
  ELSE LET decision == SuggestDecision(
                         <<TrialSuggestion(default_parameters(request))>>,
                         "no_metadata")
       IN IF request.count > 0
          THEN [decision |-> SuggestDecision(
                               decision.suggestions \o more.suggestions,
                               more.metadata),
                invoked |-> <<Invocation(suggest_fn, obj,
                                         remaining_request(request), more)>>]
          ELSE [decision |-> decision, invoked |-> <<>>]

\* Lines 68-85: wrapper_fn(self, request), where a call suggest_fn(self, ...),
\* if one is made, returns `more`.  Yields the decision returned and the
\* invocations of suggest_fn made.
wrapper_fn_call(suggest_fn, obj, request, more) ==
  IF study_has_trials(request)
  THEN [decision |-> more,
        invoked |-> <<Invocation(suggest_fn, obj, request, more)>>]
  ELSE LET decision == SuggestDecision(
                         <<TrialSuggestion(default_parameters(request))>>,
                         "no_metadata")
       IN IF request.count > 1
          THEN [decision |-> SuggestDecision(
                               decision.suggestions \o more.suggestions,
                               more.metadata),
                invoked |-> <<Invocation(suggest_fn, obj,
                                         remaining_request(request), more)>>]
          ELSE [decision |-> decision, invoked |-> <<>>]

\* Calling a bound method passes its instance as the first argument.
method_call(method, request, more) ==
  wrapper_fn_call(method.func.wraps, method.self, request, more)

\* class P(Policy): @seed_with_default def suggest(...): the class attribute
\* is the wrapper, and policy.suggest binds it to the instance.
DecorateInClassBody ==
  /\ policy = None
  /\ policy' = Some([applied |-> "class_body",
                     suggest |-> MethodType(seed_with_default(Function("suggest")),
                                            PolicyInstance)])
  /\ UNCHANGED <<log, objvars, genvars, runnervars>>

\* self.suggest = seed_with_default(self.suggest) in __init__: the argument is
\* the bound method.
DecorateBoundMethod ==
  /\ policy = None
  /\ policy' = Some([applied |-> "bound_method",
                     suggest |-> seed_with_default(
                                   MethodType(Function("suggest"), PolicyInstance))])
  /\ UNCHANGED <<log, objvars, genvars, runnervars>>

\* policy.suggest(request)
Suggest ==
  /\ policy # None
  /\ Len(log) < MaxCalls
  /\ \E request \in Requests, more \in WrappedDecisions :
       LET out == method_call(Get(policy).suggest, request, more)
       IN log' = Append(log, [request |-> request, invoked |-> out.invoked,
                              decision |-> out.decision])
  /\ UNCHANGED <<policy, objvars, genvars, runnervars>>

NextSeed == DecorateInClassBody \/ DecorateBoundMethod \/ Suggest

SpecSeed == Init /\ [][NextSeed]_vars

(***************************************************************************)
(* vizier/_src/algorithms/testing/test_runners.py: RandomMetricsRunner.    *)
(* _run(algorithm).  The algorithm (a PolicySuggester) and its supporter   *)
(* are arguments of _run: suggest(batch_size) may return any batch of at   *)
(* most batch_size suggestions, and the supporter is the collection        *)
(* AddTrials adds to and GetTrials returns.  One action per call _run      *)
(* makes on them.                                                          *)
(***************************************************************************)
\* self.iters ranges over 0..MaxIters.
MaxIters == 3
\* self.batch_size ranges over 1..MaxBatch.
MaxBatch == 2
\* The problem has 0..MaxProblemMetrics metrics.
MaxProblemMetrics == 2

\* vz.MetricInformation: the odd ones state no range, the even ones do.
MetricInformation(i) ==
  [name |-> <<"metric", i>>,
   min_value |-> IF i % 2 = 0 THEN Some("0.0") ELSE None,
   max_value |-> IF i % 2 = 0 THEN Some("1.0") ELSE None]

\* mi.min_value_or(lambda: -10.) and mi.max_value_or(lambda: 10.)
min_value_or(mi, default) == IF mi.min_value = None THEN default ELSE Get(mi.min_value)
max_value_or(mi, default) == IF mi.max_value = None THEN default ELSE Get(mi.max_value)

\* RandomMetricsRunner(problem, iters, batch_size=..., validate_parameters=...)
RandomMetricsRunner(metric_information, iters, batch_size, validate_parameters) ==
  [metric_information |-> metric_information, iters |-> iters,
   batch_size |-> batch_size, validate_parameters |-> validate_parameters]

\* The n-th draw of rng, np.random.RandomState(self.seed), uniform on [lo, hi].
Uniform(n, lo, hi) == <<"uniform", n, lo, hi>>

\* Lines 96-99: the measurement of one suggestion, the rng having made `drawn`
\* draws before.
Measurement(metric_information, drawn) ==
  [metrics |->
     [i \in 1..Len(metric_information) |->
        [name |-> metric_information[i].name,
         value |-> Uniform(drawn + i,
                           min_value_or(metric_information[i], "-10.0"),
                           max_value_or(metric_information[i], "10.0"))]]]

\* suggestion.complete(measurement)
Complete(suggestion, measurement) ==
  [suggestion |-> suggestion, status |-> "COMPLETED",
   final_measurement |-> measurement]

\* The j-th suggestion of the c-th suggest call.
SuggestionOf(c, j) == <<"suggestion", c, j>>

\* A trial the supporter held before the run.
PriorTrial ==
  [suggestion |-> <<"prior">>, status |-> "COMPLETED",
   final_measurement |-> [metrics |-> <<>>]]

\* The frame of _run before the call.
NoFrame ==
  [pc |-> "idle", it |-> 0, suggestions |-> <<>>, next |-> 0, trials |-> <<>>,
   drawn |-> 0]

\* runner._run(algorithm): lines 83-85, up to the first test of the loop.
run ==
  /\ runner = None
  /\ \E n \in 0..MaxProblemMetrics, iters \in 0..MaxIters, batch_size \in 1..MaxBatch,
        validate_parameters \in BOOLEAN, prior \in {<<>>, <<PriorTrial>>} :
       /\ runner' = Some(RandomMetricsRunner([i \in 1..n |-> MetricInformation(i)],
                                             iters, batch_size, validate_parameters))
       /\ supporter' = prior
       /\ frame' = [NoFrame EXCEPT !.pc = IF iters > 0 THEN "suggest" ELSE "return"]
  /\ UNCHANGED <<batches, returned, objvars, genvars, seedvars>>

\* suggest without the break of lines 88-92: an empty batch is treated as any
\* other, and the loop goes on to AddTrials and the next iteration.
suggest_without_break ==
  /\ frame.pc = "suggest"
  /\ \E n \in 0..Get(runner).batch_size :
       LET suggestions == [j \in 1..n |-> SuggestionOf(Len(batches) + 1, j)]
       IN /\ batches' = Append(batches, suggestions)
          /\ frame' = [frame EXCEPT
                         !.suggestions = suggestions,
                         !.trials = <<>>,
                         !.next = 1,
                         !.pc = IF suggestions = <<>> THEN "add" ELSE "complete"]
  /\ UNCHANGED <<runner, supporter, returned, objvars, genvars, seedvars>>

\* Lines 86-92: suggestions = algorithm.suggest(self.batch_size); an empty
\* batch breaks out of the loop.
suggest ==
  /\ frame.pc = "suggest"
  /\ \E n \in 0..Get(runner).batch_size :
       LET suggestions == [j \in 1..n |-> SuggestionOf(Len(batches) + 1, j)]
       IN /\ batches' = Append(batches, suggestions)
          /\ frame' = [frame EXCEPT
                         !.suggestions = suggestions,
                         !.trials = <<>>,
                         !.next = 1,
                         !.pc = IF suggestions = <<>> THEN "return" ELSE "complete"]
  /\ UNCHANGED <<runner, supporter, returned, objvars, genvars, seedvars>>

\* Lines 93-100, one pass of the inner loop: validate, measure, complete.
\* assert_contains raises when the suggestion is outside the search space.
complete ==
  /\ frame.pc = "complete"
  /\ \E contained \in BOOLEAN :
       IF Get(runner).validate_parameters /\ ~contained
       THEN frame' = [frame EXCEPT !.pc = "raised"]
       ELSE LET m == Measurement(Get(runner).metric_information, frame.drawn)
                t == Complete(frame.suggestions[frame.next], m)
            IN frame' = [frame EXCEPT
                           !.trials = Append(@, t),
                           !.drawn = @ + Len(Get(runner).metric_information),
                           !.next = @ + 1,
                           !.pc = IF frame.next = Len(frame.suggestions)
                                  THEN "add" ELSE "complete"]
  /\ UNCHANGED <<runner, supporter, batches, returned, objvars, genvars, seedvars>>

\* AddTrials dropping the last trial of the batch.
AddTrials_but_last ==
  /\ frame.pc = "add"
  /\ supporter' = supporter \o SubSeq(frame.trials, 1, Len(frame.trials) - 1)
  /\ frame' = [frame EXCEPT
                 !.it = @ + 1,
                 !.pc = IF frame.it + 1 < Get(runner).iters THEN "suggest" ELSE "return"]
  /\ UNCHANGED <<runner, batches, returned, objvars, genvars, seedvars>>

\* Line 105, and the step of the loop: algorithm.supporter.AddTrials(trials).
AddTrials ==
  /\ frame.pc = "add"
  /\ supporter' = supporter \o frame.trials
  /\ frame' = [frame EXCEPT
                 !.it = @ + 1,
                 !.pc = IF frame.it + 1 < Get(runner).iters THEN "suggest" ELSE "return"]
  /\ UNCHANGED <<runner, batches, returned, objvars, genvars, seedvars>>

\* Line 106: return algorithm.supporter.GetTrials().
GetTrials ==
  /\ frame.pc = "return"
  /\ returned' = Some(supporter)
  /\ frame' = [frame EXCEPT !.pc = "done"]
  /\ UNCHANGED <<runner, supporter, batches, objvars, genvars, seedvars>>

NextRunner == run \/ suggest \/ complete \/ AddTrials \/ GetTrials

SpecRunner == Init /\ [][NextRunner]_vars

\* _run is sequential code: once called, it takes its next step whenever the
\* call it is making (suggest, assert_contains, complete, AddTrials, GetTrials)
\* returns or raises.  Nothing obliges a caller to call _run.
SpecRunnerLive ==
  Init /\ [][NextRunner]_vars /\ WF_vars(suggest \/ complete \/ AddTrials \/ GetTrials)

(***************************************************************************)
(* Properties.                                                             *)
(***************************************************************************)
\* The names run r has declared so far, in order.
Names(r) == [i \in 1..Len(emitted[r]) |-> emitted[r][i].name]

Min(a, b) == IF a < b THEN a ELSE b

Prefix(s, n) == SubSeq(s, 1, Min(n, Len(s)))

C2_NoModelBelowOneMetric ==
  /\ (self # None => Get(self).num_metrics >= 1)
  /\ \A r \in Runs :
       (self # None /\ Get(self).num_metrics < 1)
         => (gstate[r] \notin {"suspended", "closed"} /\ emitted[r] = <<>>)

\* The base declarations the claims name, with and without the linear term.
BaseOrder(linear) ==
  IF linear
  THEN <<"signal_variance", "continuous_length_scale_squared",
         "categorical_length_scale_squared", "linear_slope_amplitude",
         "linear_shift", "mean_fn", "observation_noise_variance">>
  ELSE <<"signal_variance", "continuous_length_scale_squared",
         "categorical_length_scale_squared", "observation_noise_variance">>

LinearNames == {"linear_slope_amplitude", "linear_shift", "mean_fn"}

\* C3: in every run the base declarations come in the order signal_variance,
\* continuous_length_scale_squared, categorical_length_scale_squared, then the
\* three linear declarations exactly when linear_coef is not None, then
\* observation_noise_variance; without linear_coef no linear declaration is
\* ever made.
C3_BaseDeclarationOrder ==
  \A r \in Runs :
    self # None =>
      LET base == BaseOrder(Get(self).linear_coef # None)
      IN /\ Prefix(Names(r), Len(base)) = Prefix(base, Len(emitted[r]))
         /\ Get(self).linear_coef = None
              => \A i \in 1..Len(emitted[r]) : Names(r)[i] \notin LinearNames

\* A run with a linear term has declared all seven base names and returned.
C3_Witness ==
  \E r \in Runs :
    /\ gstate[r] = "closed"
    /\ Get(self).linear_coef # None
    /\ Prefix(Names(r), 7) = BaseOrder(TRUE)

\* The value bound in frame l of run r for its k-th declaration: the local
\* variable the yield of that name is assigned to, or, for a declaration of
\* the nested coroutine, the value the nested coroutine received for it.
BoundValue(r, k) ==
  LET name == emitted[r][k].name
      l == locals[r]
      base == Len(BaseOrder(Get(self).linear_coef # None))
  IN CASE name = "signal_variance" -> l.signal_variance
       [] name = "continuous_length_scale_squared" -> l.continuous_length_scale_squared
       [] name = "categorical_length_scale_squared" -> l.categorical_length_scale_squared
       [] name = "linear_slope_amplitude" -> l.slopes
       [] name = "linear_shift" -> l.shift
       [] name = "mean_fn" -> l.mean_fn_constant
       [] name = "observation_noise_variance" -> l.observation_noise_variance
       [] OTHER -> IF l.sub # None /\ k - base \in 1..Len(Get(l.sub).vals)
                   THEN Some(Get(l.sub).vals[k - base])
                   ELSE None

C4_State(r) ==
  /\ gstate[r] \in {"none", "created"} => (emitted[r] = <<>> /\ sent[r] = <<>>)
  /\ gstate[r] = "suspended" => Len(emitted[r]) = Len(sent[r]) + 1
  /\ gstate[r] = "closed" => Len(emitted[r]) = Len(sent[r])
  /\ (gstate[r] = "closed") <=> (result[r] # None)
  /\ \A k \in 1..Len(sent[r]) : BoundValue(r, k) = Some(sent[r][k])

\* The step is an advance of run r, not a fresh call.
Advanced(r) ==
  /\ last'[r] # NoAdvance
  /\ last'[r] # last[r] \/ sent'[r] # sent[r] \/ emitted'[r] # emitted[r]

C4_Step(r) ==
  /\ (Advanced(r) /\ gstate[r] = "created" /\ ~last'[r].value)
       => (Len(emitted'[r]) = 1 /\ sent'[r] = <<>> /\ gstate'[r] = "suspended")
  /\ (Advanced(r) /\ gstate[r] = "suspended")
       => /\ last'[r].value
          /\ Len(sent'[r]) = Len(sent[r]) + 1
          /\ Prefix(sent'[r], Len(sent[r])) = sent[r]
          /\ \/ /\ gstate'[r] = "suspended"
                /\ Len(emitted'[r]) = Len(emitted[r]) + 1
                /\ Prefix(emitted'[r], Len(emitted[r])) = emitted[r]
                /\ result'[r] = None
             \/ /\ gstate'[r] = "closed"
                /\ emitted'[r] = emitted[r]
                /\ result'[r] # None

\* C4: driver and generator alternate strictly.  The first advance, without
\* a value, yields the first declaration; each later advance with a value
\* binds that value to the declaration yielded just before it and either
\* yields exactly one more declaration or returns the model.  So a suspended
\* run has declared one more than it received, and a run returns exactly on
\* the value for its last declaration.
C4_StrictAlternation ==
  /\ [](\A r \in Runs : C4_State(r))
  /\ [][\A r \in Runs : C4_Step(r)]_vars

\* A run has returned after nine declarations and nine values.
C4_Witness ==
  \E r \in Runs :
    gstate[r] = "closed" /\ Len(emitted[r]) = 9 /\ Len(sent[r]) = 9

\* C5: a value sent before the first declaration raises and leaves the
\* generator not started, with nothing declared; any advance of a generator
\* that has returned, with or without a value, raises, declares nothing more,
\* accepts no value and returns no second model.
C5_UsageErrorsRaise ==
  [][\A r \in Runs :
       Advanced(r) =>
         /\ (gstate[r] = "created" /\ last'[r].value)
              => /\ last'[r].outcome = "TypeError"
                 /\ gstate'[r] = "created"
                 /\ emitted'[r] = <<>> /\ sent'[r] = <<>> /\ result'[r] = None
         /\ gstate[r] = "closed"
              => /\ last'[r].outcome = "StopIteration"
                 /\ gstate'[r] = "closed"
                 /\ emitted'[r] = emitted[r] /\ sent'[r] = sent[r]
                 /\ result'[r] = result[r]]_vars

\* A returned generator was advanced again with a value and raised.
C5_Witness ==
  \E r \in Runs :
    /\ gstate[r] = "closed"
    /\ last[r] = [value |-> TRUE, outcome |-> "StopIteration"]
    /\ Len(sent[r]) = Len(emitted[r])

\* The run is of a model with several metrics and a separable type.
SeparableRun == self # None /\ Get(self).num_metrics > 1 /\ Get(self).multitask_type # "INDEPENDENT"

\* C6: with num_metrics > 1 and a separable type the declarations of the
\* nested coroutine come after observation_noise_variance, contiguously and
\* last; every value sent for one of them reaches the nested coroutine, and
\* what the nested coroutine returns is the task-kernel-scale operator of the
\* returned model's kernel.
C6_NestedDeclarations ==
  \A r \in Runs :
    SeparableRun =>
      LET obj == Get(self)
          base == BaseOrder(obj.linear_coef # None)
          all == base \o task_kernel_scale_names(obj.multitask_type)
          nested == SubSeq(sent[r], Len(base) + 1, Len(sent[r]))
      IN /\ Names(r) = Prefix(all, Len(emitted[r]))
         /\ Len(emitted[r]) <= Len(all)
         /\ locals[r].sub # None => Get(locals[r].sub).vals = nested
         /\ gstate[r] = "closed"
              => /\ Names(r) = all
                 /\ locals[r].sub # None
                 /\ Get(result[r]).kernel.kernel = "Separable"
                 /\ Get(result[r]).kernel.args[3] =
                      task_kernel_scale_linop(obj.num_metrics, obj.multitask_type, nested)

\* A separable run with two nested declarations has returned.
C6_Witness ==
  \E r \in Runs :
    /\ SeparableRun
    /\ gstate[r] = "closed"
    /\ Len(Get(locals[r].sub).vals) = 2
    /\ Names(r)[Len(emitted[r]) - 2] = "observation_noise_variance"

\* C7: with num_metrics > 1, an INDEPENDENT run declares the base sequence and
\* nothing more, while a run of a separable type, for the same linear-term
\* setting, has declared more than the base sequence when it returns: the
\* INDEPENDENT run declares strictly fewer.
C7_IndependentDeclaresFewer ==
  \A r \in Runs :
    (self # None /\ Get(self).num_metrics > 1) =>
      LET base == BaseOrder(Get(self).linear_coef # None)
      IN IF Get(self).multitask_type = "INDEPENDENT"
         THEN /\ Len(emitted[r]) <= Len(base)
              /\ gstate[r] = "closed" => Names(r) = base
         ELSE gstate[r] = "closed" => Len(emitted[r]) > Len(base)

\* An INDEPENDENT run of a model with several metrics has returned.
C7_Witness ==
  \E r \in Runs :
    /\ self # None /\ Get(self).num_metrics > 1
    /\ Get(self).multitask_type = "INDEPENDENT"
    /\ gstate[r] = "closed"
    /\ Names(r)[Len(emitted[r])] = "observation_noise_variance"

\* C10: for num_metrics >= 1 the returned distribution is the single-task
\* Gaussian process, of event shape [N], exactly when num_metrics is 1, and
\* otherwise the multi-task one, of event shape [N, num_metrics].
C10_DistributionByMetricCount ==
  \A r \in Runs :
    (gstate[r] = "closed" /\ Get(self).num_metrics >= 1) =>
      LET d == Get(result[r])
          m == Get(self).num_metrics
      IN /\ (d.distribution = "GaussianProcess") <=> (m = 1)
         /\ (d.distribution = "MultiTaskGaussianProcess") <=> (m > 1)
         /\ event_shape(d) = IF m = 1 THEN <<"num_examples">> ELSE <<"num_examples", m>>

\* A single-task model was returned for a separable type with one metric.
C10_Witness ==
  \E r \in Runs :
    /\ gstate[r] = "closed"
    /\ Get(self).num_metrics = 1
    /\ Get(self).multitask_type # "INDEPENDENT"
    /\ Get(result[r]).distribution = "GaussianProcess"

\* C11: a multitask type outside the enumeration is rejected when the model is
\* built, whatever num_metrics is: no model object with such a type exists,
\* and no run of one declares anything.
C11_UnknownTypeRejectedAtBuild ==
  /\ self # None => Get(self).multitask_type \in MultiTaskType
  /\ \A r \in Runs :
       (self # None /\ Get(self).multitask_type \notin MultiTaskType)
         => (gstate[r] = "none" /\ emitted[r] = <<>>)

\* The default suggestion of a request.
DefaultSuggestion(request) == TrialSuggestion(default_parameters(request))

\* C13: a call on an empty study (max_trial_id = 0) with count n > 1 invokes
\* the wrapped suggest exactly once, on the policy instance, with count n - 1
\* and the study descriptor of the request, and returns the default
\* suggestion followed by the wrapped function's suggestions in their order;
\* this holds however the decorator was applied.
C13_DefaultThenRemaining ==
  \A i \in 1..Len(log) :
    LET e == log[i] IN
      (e.request.study_descriptor.max_trial_id = 0 /\ e.request.count > 1) =>
        /\ Len(e.invoked) = 1
        /\ e.invoked[1].fn = Function("suggest")
        /\ e.invoked[1].self = PolicyInstance
        /\ e.invoked[1].request.count = e.request.count - 1
        /\ e.invoked[1].request.study_descriptor = e.request.study_descriptor
        /\ e.decision.suggestions =
             <<DefaultSuggestion(e.request)>> \o e.invoked[1].returned.suggestions

\* The decorator was applied to a bound method, and a request for three on an
\* empty study returned the default followed by two wrapped suggestions.
C13_Witness ==
  /\ policy # None /\ Get(policy).applied = "bound_method"
  /\ \E i \in 1..Len(log) :
       /\ log[i].request.count = 3
       /\ log[i].request.study_descriptor.max_trial_id = 0
       /\ Len(log[i].decision.suggestions) = 3
       /\ log[i].decision.suggestions[3] = TrialSuggestion(<<"wrapped", 2>>)

\* C14: a call with max_trial_id > 0 invokes the wrapped suggest exactly once
\* with the request as it was given and returns its decision unchanged, which
\* holds no default suggestion; in any sequence of calls, a decision holds
\* the default suggestion only if its call had max_trial_id = 0.
C14_DefaultOnlyOnEmptyStudy ==
  \A i \in 1..Len(log) :
    LET e == log[i] IN
      /\ e.request.study_descriptor.max_trial_id > 0 =>
           /\ Len(e.invoked) = 1
           /\ e.invoked[1].request = e.request
           /\ e.invoked[1].self = PolicyInstance
           /\ e.decision = e.invoked[1].returned
      /\ (\E k \in 1..Len(e.decision.suggestions) :
            e.decision.suggestions[k] = DefaultSuggestion(e.request))
           => e.request.study_descriptor.max_trial_id = 0

\* A call on an empty study returned the default, and a later call on the
\* same policy, the study no longer empty, returned two wrapped suggestions.
C14_Witness ==
  /\ Len(log) = 2
  /\ log[1].request.study_descriptor.max_trial_id = 0
  /\ log[1].decision.suggestions[1] = DefaultSuggestion(log[1].request)
  /\ log[2].request.study_descriptor.max_trial_id > 0
  /\ Len(log[2].decision.suggestions) = 2
  /\ log[2].invoked[1].request = log[2].request

\* The suggestions all suggest calls so far have returned.
Suggested == UNION {{batches[c][j] : j \in 1..Len(batches[c])} : c \in 1..Len(batches)}

\* The trials of the supporter that complete suggestion s.
TrialsOf(s) == {k \in 1..Len(supporter) : supporter[k].suggestion = s}

\* The measurement holds one value for each metric of the problem, in order.
MeasuresEveryMetric(t) ==
  LET mi == Get(runner).metric_information
      ms == t.final_measurement.metrics
  IN /\ Len(ms) = Len(mi)
     /\ \A i \in 1..Len(mi) : ms[i].name = mi[i].name /\ ms[i].value[1] = "uniform"

\* C15: _run alternates suggest and update strictly.  Whenever the next
\* suggest call is due, or the loop has ended, every suggestion returned so
\* far has exactly one completed trial in the supporter, whose measurement
\* holds a value for every metric of the problem; and what _run returns is the
\* supporter's whole collection, with every trial generated in the run.
C15_SuggestUpdateLoop ==
  /\ frame.pc \in {"suggest", "return", "done"} =>
       \A s \in Suggested :
         /\ Cardinality(TrialsOf(s)) = 1
         /\ \A k \in TrialsOf(s) :
              supporter[k].status = "COMPLETED" /\ MeasuresEveryMetric(supporter[k])
  /\ frame.pc = "done" =>
       /\ returned = Some(supporter)
       /\ \A s \in Suggested : \E k \in 1..Len(Get(returned)) :
            Get(returned)[k].suggestion = s

\* Two iterations of two suggestions each have been completed, measured on
\* two metrics and added, and the four trials have been returned.
C15_Witness ==
  /\ frame.pc = "done"
  /\ Len(batches) = 2 /\ Len(batches[1]) = 2 /\ Len(batches[2]) = 2
  /\ Len(Get(runner).metric_information) = 2
  /\ Len(Get(returned)) >= 4

\* C17: with num_metrics = 1 the multitask type has no effect: whatever the
\* type, separable ones included, a run declares the base declarations and
\* no other, never starts the nested coroutine, and returns the single-task
\* Gaussian process over the base kernel.
C17_SingleMetricIgnoresType ==
  \A r \in Runs :
    (self # None /\ Get(self).num_metrics = 1) =>
      LET base == BaseOrder(Get(self).linear_coef # None)
      IN /\ Len(emitted[r]) <= Len(base)
         /\ Names(r) = Prefix(base, Len(emitted[r]))
         /\ pc[r] # "yield_from"
         /\ locals[r].sub = None /\ locals[r].task_kernel_scale_linop = None
         /\ gstate[r] # "raised"
         /\ gstate[r] = "closed"
              => /\ Names(r) = base
                 /\ Get(result[r]).distribution = "GaussianProcess"
                 /\ Get(result[r]).kernel = Get(locals[r].kernel)
                 /\ Get(result[r]).kernel.kernel \notin {"Independent", "Separable"}

\* A run of a one-metric model of the separable type with two nested
\* declarations has returned after the base declarations.
C17_Witness ==
  \E r \in Runs :
    /\ gstate[r] = "closed"
    /\ Get(self).num_metrics = 1
    /\ Get(self).multitask_type = "SEPARABLE_B"
    /\ Names(r) = BaseOrder(Get(self).linear_coef # None)
    /\ locals[r].sub = None

\* The two objects agree on dimensionality, multitask type and the presence
\* of the linear term.
SameDimTypeLinear ==
  /\ Get(self).dim = Get(other).dim
  /\ Get(self).multitask_type = Get(other).multitask_type
  /\ ((Get(self).linear_coef = None) <=> (Get(other).linear_coef = None))

\* C16 as stated: the sequence of declared names is determined by
\* dimensionality, multitask type and presence of the linear term alone, so
\* two runs of objects that agree on these, whatever their metric counts,
\* use_retrying_cholesky and boundary epsilons, and with or without inputs,
\* have declared the same names when both have returned.
C16_NamesByDimTypeLinear ==
  (other # None /\ SameDimTypeLinear /\ gstate[1] = "closed" /\ gstate[2] = "closed")
    => Names(1) = Names(2)

\* C16, amended: the sequence of declared names is determined by
\* dimensionality, multitask type, presence of the linear term and whether
\* num_metrics > 1.  Two runs of objects that agree on these declare the same
\* names in the same order, as far as both have come and in full when both
\* have returned, with or without inputs and whatever use_retrying_cholesky,
\* boundary epsilon and the exact metric count.
C16_NamesByDimTypeLinearMultitask ==
  (other # None /\ SameDimTypeLinear
     /\ ((Get(self).num_metrics > 1) <=> (Get(other).num_metrics > 1)))
    => /\ Prefix(Names(1), Len(emitted[2])) = Prefix(Names(2), Len(emitted[1]))
       /\ (gstate[1] = "closed" /\ gstate[2] = "closed") => Names(1) = Names(2)

\* Two runs have returned after the same nine names although their objects
\* differ in use_retrying_cholesky and boundary epsilon, and only one was
\* called with inputs.
C16_Witness ==
  /\ other # None
  /\ gstate[1] = "closed" /\ gstate[2] = "closed"
  /\ Get(self).num_metrics > 1 /\ Get(other).num_metrics > 1
  /\ Get(self).use_retrying_cholesky # Get(other).use_retrying_cholesky
  /\ Get(self).boundary_epsilon # Get(other).boundary_epsilon
  /\ Get(result[1]).index_points # None /\ Get(result[2]).index_points = None
  /\ Len(emitted[1]) = 9 /\ Names(1) = Names(2)

\* The two objects differ in use_retrying_cholesky and in nothing else.
DifferInCholeskyOnly ==
  /\ other # None
  /\ Get(self).use_retrying_cholesky # Get(other).use_retrying_cholesky
  /\ [Get(self) EXCEPT !.use_retrying_cholesky = TRUE]
       = [Get(other) EXCEPT !.use_retrying_cholesky = TRUE]

\* The retrying factorization of lines 272-280.
RetryingCholesky ==
  [fn |-> "retrying_cholesky", jitter |-> "1e-4", max_iters |-> max_iters, element |-> 0]

\* C18: use_retrying_cholesky selects the factorization and nothing else.  A
\* returned model holds the retrying factorization (jitter 1e-4, at most 5
\* tries) as its cholesky_fn when the flag is true, and no cholesky_fn, so
\* nothing that retries, when it is false.  Two objects that differ in the
\* flag only, run on the same values and inputs, make the same declarations
\* and return models equal in everything but cholesky_fn.
C18_CholeskySelectionOnly ==
  /\ \A r \in Runs :
       (self # None /\ gstate[r] = "closed") =>
         Get(result[r]).cholesky_fn =
           IF Obj(r).use_retrying_cholesky THEN Some(RetryingCholesky) ELSE None
  /\ DifferInCholeskyOnly =>
       /\ \A i \in 1..Min(Len(emitted[1]), Len(emitted[2])) : emitted[1][i] = emitted[2][i]
       /\ (gstate[1] = "closed" /\ gstate[2] = "closed"
             /\ locals[1].inputs = locals[2].inputs)
            => /\ emitted[1] = emitted[2]
               /\ [Get(result[1]) EXCEPT !.cholesky_fn = None]
                    = [Get(result[2]) EXCEPT !.cholesky_fn = None]

\* Two objects differing in the flag only have returned their models for the
\* same inputs: one holds the retrying factorization, the other none.
C18_Witness ==
  /\ DifferInCholeskyOnly
  /\ gstate[1] = "closed" /\ gstate[2] = "closed"
  /\ locals[1].inputs = locals[2].inputs /\ locals[1].inputs # None
  /\ Get(self).use_retrying_cholesky
  /\ Get(result[1]).cholesky_fn = Some(RetryingCholesky)
  /\ Get(result[2]).cholesky_fn = None
  /\ Len(emitted[1]) >= 8

\* The contents agree on the flags and on the raw columns of every dimension
\* not flagged missing.
SameButMissing(e1, e2) ==
  \A block \in {"continuous", "categorical"} :
    /\ e1[block].is_missing = e2[block].is_missing
    /\ \A i \in DOMAIN e1[block].padded_array :
         ~e1[block].is_missing[i] => e1[block].padded_array[i] = e2[block].padded_array[i]

\* C12: the log-density of a model returned for inputs does not depend on the
\* raw values of the feature dimensions flagged missing: evaluated on any
\* other contents that differ from the ones used only in the raw columns of
\* flagged dimensions, the same model gives the same log-density.
C12_MissingDimensionsNotRead ==
  \A r \in Runs :
    evaluated[r] # None =>
      \A env \in Contents(Obj(r).dim) :
        SameButMissing(Get(evaluated[r]).env, env)
          => LogProb(Get(result[r]), env) = Get(evaluated[r]).log_prob

\* A model with a linear term was evaluated on inputs whose continuous
\* dimension is flagged missing and whose categorical dimension is not.
C12_Witness ==
  \E r \in Runs :
    /\ evaluated[r] # None
    /\ Obj(r).dim = [continuous |-> 1, categorical |-> 1]
    /\ Obj(r).linear_coef # None
    /\ Get(evaluated[r]).env.continuous.is_missing[1]
    /\ ~Get(evaluated[r]).env.categorical.is_missing[1]
    /\ Get(result[r]).kernel.kernel = "MaskFeatures"

\* C19: no matrix is factorized during a run.  From the call up to and
\* including the advance that returns the model, run r has made no
\* factorization; the factorizations of a run are those of evaluating the
\* model it returned.
C19_NoFactorizationDuringRun ==
  \A r \in Runs :
    /\ gstate[r] # "closed" => factorizations[r] = <<>>
    /\ evaluated[r] = None => factorizations[r] = <<>>
    /\ evaluated[r] # None =>
         /\ gstate[r] = "closed"
         /\ factorizations[r] = <<Factorization(Get(result[r]))>>

\* A model was returned with nothing factorized so far.
C19_Witness ==
  \E r \in Runs :
    /\ gstate[r] = "closed"
    /\ last[r].outcome = "return"
    /\ Get(result[r]).cholesky_fn # None
    /\ Get(result[r]).index_points # None
    /\ factorizations[r] = <<>>

\* What a step can change of run r.
RunState(r) ==
  <<gstate[r], pc[r], locals[r], emitted[r], sent[r], last[r], result[r]>>

\* The local `inputs` of run r is the argument of the call until line 258
\* rebinds it, just before observation_noise_variance is declared, to a new
\* pair of the same padded arrays: the argument itself is not written to.
InputsAsPassed(r) ==
  LET inp == ModelInput(Obj(r).dim)
      rebound == \E i \in 1..Len(emitted[r]) :
                   emitted[r][i].name = "observation_noise_variance"
  IN \/ locals[r].inputs = None
     \/ IF rebound
        THEN locals[r].inputs =
               Some(ContinuousAndCategoricalValues(inp.continuous.padded_array,
                                                   inp.categorical.padded_array))
        ELSE locals[r].inputs = Some(inp)

C20_State ==
  \A r \in Runs :
    /\ gstate[r] # "none" => InputsAsPassed(r)
    /\ Len(emitted[r]) >= 1 => emitted[r][1].name = "signal_variance"
    /\ \A q \in Runs :
         (gstate[r] = "closed" /\ gstate[q] = "closed" /\ abandoned[r] /\ ~abandoned[q])
           => emitted[r] = emitted[q]

C20_Step ==
  /\ self # None => self' = self
  /\ \A r \in Runs :
       /\ (abandoned'[r] /\ ~abandoned[r]) =>
            /\ gstate'[r] = "created"
            /\ emitted'[r] = <<>> /\ sent'[r] = <<>> /\ result'[r] = None
       /\ \A q \in Runs \ {r} :
            RunState(r)' # RunState(r) => RunState(q)' = RunState(q)

\* C20: a run changes neither the model object nor the inputs it was given.
\* A generator may be abandoned at any point: the call made after it starts
\* from nothing, its first declaration is signal_variance, and when it
\* returns it has made the declarations of a run that no abandoned generator
\* preceded.  A step of one run changes nothing of the other.
C20_RunsAreIndependent ==
  /\ []C20_State
  /\ [][C20_Step]_vars

\* Run 1 has returned after a generator of it was abandoned, run 2 without
\* any abandoned, and both have made the same nine declarations.
C20_Witness ==
  /\ abandoned[1] /\ ~abandoned[2]
  /\ gstate[1] = "closed" /\ gstate[2] = "closed"
  /\ Len(emitted[1]) = 9
  /\ emitted[1] = emitted[2]
\* C21: within one run no two declarations carry the same name: each
\* declaration passed out is named differently from all those passed out
\* before it in that run, with or without the linear term, the declarations
\* of the nested run included.
C21_NamesAreUnique ==
  \A r \in Runs :
    \A i, j \in 1..Len(emitted[r]) :
      i # j => emitted[r][i].name # emitted[r][j].name

\* A run with the linear term and a nested run of two declarations has
\* returned: three linear-term names and two nested names among nine.
C21_Witness ==
  \E r \in Runs :
    /\ gstate[r] = "closed"
    /\ Obj(r).linear_coef # None
    /\ Len(task_kernel_scale_names(Obj(r).multitask_type)) = 2
    /\ Cardinality({Names(r)[i] : i \in 1..Len(emitted[r])}) = 9
    /\ \E i \in 1..Len(emitted[r]) : Names(r)[i] = "task_kernel_scale_2"

\* The last suggest call returned no suggestions.
EmptyBatch == batches # <<>> /\ batches[Len(batches)] = <<>>

\* The number of suggestions in the batches returned so far.
RECURSIVE SuggestedCount(_)
SuggestedCount(c) == IF c = 0 THEN 0 ELSE Len(batches[c]) + SuggestedCount(c - 1)

C22_State ==
  runner # None =>
    /\ Len(batches) <= Get(runner).iters
    /\ \A c \in 1..Len(batches) : batches[c] = <<>> => c = Len(batches)
    /\ EmptyBatch => frame.pc \in {"return", "done"}
    /\ frame.pc = "done" =>
         /\ returned = Some(supporter)
         /\ frame.it = Cardinality({c \in 1..Len(batches) : batches[c] # <<>>})
         /\ \E prior \in {<<>>, <<PriorTrial>>} :
              /\ Len(supporter) = Len(prior) + SuggestedCount(Len(batches))
              /\ SubSeq(supporter, 1, Len(prior)) = prior

C22_Step ==
  EmptyBatch => (batches' = batches /\ supporter' = supporter /\ EmptyBatch')

\* C22: _run, once called, ends: it returns, or it raises from
\* assert_contains.  It makes at most iters suggest calls; an empty batch is
\* the last batch: after it no suggest call is made and the supporter is left
\* as it is up to the return; and what is returned is the supporter's
\* collection, the trials it held before followed by one trial for each
\* suggestion of the earlier iterations.
C22_StopsAtEmptyBatch ==
  /\ []C22_State
  /\ [][C22_Step]_vars
  /\ (runner # None) ~> (frame.pc \in {"done", "raised"})

\* A run of three iterations has returned after two suggest calls, the second
\* of them returning nothing: the prior trial and the two trials of the first
\* iteration are returned.
C22_Witness ==
  /\ frame.pc = "done"
  /\ Get(runner).iters = 3
  /\ Len(batches) = 2 /\ Len(batches[1]) = 2 /\ batches[2] = <<>>
  /\ Len(Get(returned)) = 3
  /\ Get(returned)[1] = PriorTrial

\* The study of logged call k is empty.
EmptyStudy(k) == log[k].request.study_descriptor.max_trial_id = 0

\* Every invocation of the wrapped function in logged call k returned as many
\* suggestions as the request it was given asks for.
WrappedReturnsCount(k) ==
  \A i \in 1..Len(log[k].invoked) :
    Len(log[k].invoked[i].returned.suggestions) = log[k].invoked[i].request.count

\* C23: on an empty study a request with count <= 1 is answered without
\* invoking the wrapped suggest, by a decision of exactly one suggestion, the
\* default parameters; and a request with count >= 1 whose wrapped suggest
\* returns as many suggestions as it is asked for is answered by a decision of
\* exactly count suggestions.
C23_DefaultAloneAndCount ==
  \A k \in 1..Len(log) :
    EmptyStudy(k) =>
      /\ log[k].request.count <= 1 =>
           /\ log[k].invoked = <<>>
           /\ log[k].decision.suggestions =
                <<TrialSuggestion(default_parameters(log[k].request))>>
      /\ (log[k].request.count >= 1 /\ WrappedReturnsCount(k)) =>
           Len(log[k].decision.suggestions) = log[k].request.count

\* On empty studies, the decorated bound method has answered a request of
\* count 1 with the default alone, and a request of count 3, whose wrapped
\* suggest returned two suggestions, with three.
C23_Witness ==
  /\ policy # None /\ Get(policy).applied = "bound_method"
  /\ Len(log) = 2
  /\ EmptyStudy(1) /\ log[1].request.count = 1 /\ log[1].invoked = <<>>
  /\ Len(log[1].decision.suggestions) = 1
  /\ EmptyStudy(2) /\ log[2].request.count = 3 /\ WrappedReturnsCount(2)
  /\ Len(log[2].invoked) = 1
  /\ Len(log[2].decision.suggestions) = 3

=============================================================================
